---- MODULE Spec2Model ----
(***************************************************************************)
(* Glossary masking, unmasking and the translation run of the Skyrim       *)
(* dialogue translation tool.                                               *)
(*                                                                          *)
(* A text is a sequence of one-character strings.  The SQL NULL of a text   *)
(* column is the one-element sequence NULL, which is no text.               *)
(***************************************************************************)
EXTENDS Integers, Sequences, FiniteSets, TLC

VARIABLES
    glossary,        \* table glossary: rows [id, term, category] in rowid order
    dialogStrings,   \* table dialog_strings: record id -> [source, dest, maskedSource]
    pc,              \* position of the script that is running ("idle": none)
    mask,            \* locals of mask_strings.ts main()
    tr,              \* locals of the translation engine's main()
    hist,            \* history of the runs (what the claims speak about)
    fn               \* inputs and results of the masking functions (SpecMasking)

vars == <<glossary, dialogStrings, pc, mask, tr, hist, fn>>

----------------------------------------------------------------------------
(* Characters and strings *)

NULL == <<"null">>

LowerLetters == <<"a","b","c","d","e","f","g","h","i","j","k","l","m",
                  "n","o","p","q","r","s","t","u","v","w","x","y","z">>

UpperLetters == <<"A","B","C","D","E","F","G","H","I","J","K","L","M",
                  "N","O","P","Q","R","S","T","U","V","W","X","Y","Z">>

Digits == {"0","1","2","3","4","5","6","7","8","9"}

Range(s) == {s[i] : i \in DOMAIN s}

IsLower(c) == c \in Range(LowerLetters)

IsUpper(c) == c \in Range(UpperLetters)

\* String.prototype.toLowerCase on one character
toLowerChar(c) ==
    IF IsUpper(c)
    THEN LowerLetters[CHOOSE i \in DOMAIN UpperLetters : UpperLetters[i] = c]
    ELSE c

toLowerCase(s) == [i \in DOMAIN s |-> toLowerChar(s[i])]

\* Canonicalize of a regular expression with the i flag (upper-casing)
Canonicalize(c) ==
    IF IsLower(c)
    THEN UpperLetters[CHOOSE i \in DOMAIN LowerLetters : LowerLetters[i] = c]
    ELSE c

\* the class \w that \b is defined by
IsWordChar(c) == IsLower(c) \/ IsUpper(c) \/ c \in Digits \/ c = "_"

\* JavaScript truthiness of a nullable string
Truthy(s) == s # NULL /\ s # <<>>

\* a || b on nullable strings
OrElse(a, b) == IF Truthy(a) THEN a ELSE b

IsSpace(c) == c \in {" ", "\t", "\n"}

RECURSIVE trimStart(_)
trimStart(s) ==
    IF s # <<>> /\ IsSpace(Head(s)) THEN trimStart(Tail(s)) ELSE s

RECURSIVE trimEnd(_)
trimEnd(s) ==
    IF s # <<>> /\ IsSpace(s[Len(s)]) THEN trimEnd(SubSeq(s, 1, Len(s) - 1)) ELSE s

trim(s) == trimEnd(trimStart(s))

RECURSIVE Concat(_)
Concat(ss) == IF ss = <<>> THEN <<>> ELSE Head(ss) \o Concat(Tail(ss))

RECURSIVE Join(_, _)
Join(ss, sep) ==
    IF ss = <<>> THEN <<>>
    ELSE IF Len(ss) = 1 THEN ss[1]
    ELSE ss[1] \o sep \o Join(Tail(ss), sep)

----------------------------------------------------------------------------
(* Regular expressions of mask_strings.ts *)

RegExpSpecial == {".", "*", "+", "?", "^", "$", "{", "}", "(", ")", "|", "[", "]", "\\"}

\* string.replace(/[.*+?^${}()|[\]\\]/g, '\\$&')
RECURSIVE escapeRegExp(_)
escapeRegExp(string) ==
    IF string = <<>> THEN <<>>
    ELSE (IF Head(string) \in RegExpSpecial
          THEN <<"\\", Head(string)>>
          ELSE <<Head(string)>>) \o escapeRegExp(Tail(string))

\* `\\b${escapeRegExp(t.term)}\\b` for every sorted term
EscapedTerms(sortedTerms) ==
    [i \in DOMAIN sortedTerms |->
        <<"\\", "b">> \o escapeRegExp(sortedTerms[i].term) \o <<"\\", "b">>]

\* escapedTerms.join('|')
PatternSource(escapedTerms) == Join(escapedTerms, <<"|">>)

\* new RegExp(source, 'gi'): the alternatives of the source, each a sequence
\* of atoms.  "\b" is the word-boundary assertion, "\c" the literal c, "." any
\* character but a line terminator, "|" separates alternatives; every other
\* character stands for itself.
RECURSIVE ParseRegExp(_, _, _)
ParseRegExp(src, alts, cur) ==
    IF src = <<>> THEN Append(alts, cur)
    ELSE IF Head(src) = "\\" /\ Len(src) >= 2
    THEN ParseRegExp(SubSeq(src, 3, Len(src)), alts,
                     Append(cur, IF src[2] = "b"
                                 THEN [kind |-> "wb", ch |-> ""]
                                 ELSE [kind |-> "lit", ch |-> src[2]]))
    ELSE IF Head(src) = "|"
    THEN ParseRegExp(Tail(src), Append(alts, cur), <<>>)
    ELSE IF Head(src) = "."
    THEN ParseRegExp(Tail(src), alts, Append(cur, [kind |-> "any", ch |-> ""]))
    ELSE ParseRegExp(Tail(src), alts, Append(cur, [kind |-> "lit", ch |-> Head(src)]))

RegExp(src) == ParseRegExp(src, <<>>, <<>>)

\* \b at position p (between text[p-1] and text[p])
IsWordBoundary(text, p) ==
    (p > 1 /\ IsWordChar(text[p - 1])) # (p <= Len(text) /\ IsWordChar(text[p]))

\* Match the atoms k.. of one alternative at position p, case-insensitively:
\* the position after the match, or 0 when the alternative does not match.
RECURSIVE MatchAtoms(_, _, _, _)
MatchAtoms(atoms, k, text, p) ==
    IF k > Len(atoms) THEN p
    ELSE IF atoms[k].kind = "wb"
    THEN IF IsWordBoundary(text, p) THEN MatchAtoms(atoms, k + 1, text, p) ELSE 0
    ELSE IF p > Len(text) THEN 0
    ELSE IF atoms[k].kind = "any"
    THEN IF text[p] # "\n" THEN MatchAtoms(atoms, k + 1, text, p + 1) ELSE 0
    ELSE IF Canonicalize(text[p]) = Canonicalize(atoms[k].ch)
    THEN MatchAtoms(atoms, k + 1, text, p + 1) ELSE 0

\* the alternatives are tried in order, the first that matches wins:
\* the position after the match at p, or 0
MatchAt(pattern, text, p) ==
    IF \E a \in DOMAIN pattern : MatchAtoms(pattern[a], 1, text, p) # 0
    THEN LET a == CHOOSE a \in DOMAIN pattern :
                      /\ MatchAtoms(pattern[a], 1, text, p) # 0
                      /\ \A b \in 1..(a - 1) : MatchAtoms(pattern[b], 1, text, p) = 0
         IN  MatchAtoms(pattern[a], 1, text, p)
    ELSE 0

\* The matches of a global pattern in text from position p on, left to right
\* and non-overlapping: the spans <<first, last>>.
RECURSIVE Matches(_, _, _)
Matches(pattern, text, p) ==
    IF p > Len(text) THEN <<>>
    ELSE LET e == MatchAt(pattern, text, p)
         IN  IF e > p THEN <<(<<p, e - 1>>)>> \o Matches(pattern, text, e)
             ELSE Matches(pattern, text, p + 1)

\* text.replace(pattern, callback): the text between the matches is kept and
\* each match is replaced by callback's result; spans are those of Matches,
\* Replaced[i] is the replacement of the i-th.
RECURSIVE ReplaceSpans(_, _, _, _, _)
ReplaceSpans(text, spans, Replaced, i, p) ==
    IF i > Len(spans) THEN SubSeq(text, p, Len(text))
    ELSE SubSeq(text, p, spans[i][1] - 1) \o Replaced[i]
         \o ReplaceSpans(text, spans, Replaced, i + 1, spans[i][2] + 1)

----------------------------------------------------------------------------
(* mask_strings.ts: the glossary build phase *)

Name == <<"N","a","m","e">>

Location == <<"L","o","c","a","t","i","o","n">>

Term == <<"T","e","r","m">>

\* categoryMap[subdir] || 'Term'
categoryMap(subdir) ==
    CASE subdir = "creatures"         -> <<"C","r","e","a","t","u","r","e">>
      [] subdir = "enchanting"        -> <<"E","n","c","h","a","n","t","i","n","g">>
      [] subdir = "other"             -> Term
      [] subdir = "perks"             -> <<"P","e","r","k">>
      [] subdir = "races"             -> <<"R","a","c","e">>
      [] subdir = "skills"            -> <<"S","k","i","l","l">>
      [] subdir = "skyrim_characters" -> Name
      [] subdir = "skyrim_factions"   -> <<"F","a","c","t","i","o","n">>
      [] subdir = "skyrim_items"      -> <<"I","t","e","m">>
      [] subdir = "skyrim_locations"  -> Location
      [] subdir = "skyrim_quests"     -> <<"Q","u","e","s","t">>
      [] subdir = "spells"            -> <<"S","p","e","l","l">>
      [] OTHER                        -> Term

\* the terms of one names_only.json, empty items dropped
RECURSIVE ItemsOf(_, _)
ItemsOf(items, category) ==
    IF items = <<>> THEN <<>>
    ELSE (IF Head(items) # <<>>
          THEN <<[term |-> Head(items), category |-> category]>>
          ELSE <<>>) \o ItemsOf(Tail(items), category)

\* rawTerms: every item of every <subdir>/names_only.json, in directory order
RECURSIVE LoadRawTerms(_)
LoadRawTerms(dirs) ==
    IF dirs = <<>> THEN <<>>
    ELSE ItemsOf(Head(dirs).items, categoryMap(Head(dirs).subdir))
         \o LoadRawTerms(Tail(dirs))

\* uniqueTerms: a Map keyed by the term as written, the first entry wins
RECURSIVE UniqueTerms(_, _)
UniqueTerms(rawTerms, seen) ==
    IF rawTerms = <<>> THEN <<>>
    ELSE IF Head(rawTerms).term \in seen
    THEN UniqueTerms(Tail(rawTerms), seen)
    ELSE <<Head(rawTerms)>> \o UniqueTerms(Tail(rawTerms), seen \cup {Head(rawTerms).term})

\* the rows inserted for uniqueTerms, ids[i] the id drawn for the i-th entry
GlossaryRows(uniqueTerms, ids) ==
    [i \in DOMAIN uniqueTerms |->
        [id |-> ids[i], term |-> uniqueTerms[i].term, category |-> uniqueTerms[i].category]]

\* primary key on id, UNIQUE on term (compared byte for byte)
InsertAccepted(rows) ==
    \A i, j \in DOMAIN rows : i # j => rows[i].id # rows[j].id /\ rows[i].term # rows[j].term

MaxTermLength(rows) ==
    IF rows = <<>> THEN 0
    ELSE LET i == CHOOSE i \in DOMAIN rows : \A j \in DOMAIN rows : Len(rows[j].term) <= Len(rows[i].term)
         IN  Len(rows[i].term)

\* the rows of exactly length n, in their order, then the shorter ones
RECURSIVE SortFrom(_, _)
SortFrom(rows, n) ==
    IF n = 0 THEN <<>>
    ELSE SelectSeq(rows, LAMBDA t : Len(t.term) = n) \o SortFrom(rows, n - 1)

\* the rows in table order, not sorted
SortedTermsUnsorted(glossaryTerms) ==
    [i \in DOMAIN glossaryTerms |->
        [term     |-> glossaryTerms[i].term,
         id       |-> glossaryTerms[i].id,
         category |-> OrElse(glossaryTerms[i].category, Term)]]

\* glossaryTerms.map(...).sort((a, b) => b.term.length - a.term.length):
\* descending term length, equal lengths keep their order (the sort is stable)
SortedTerms(glossaryTerms) ==
    SortFrom([i \in DOMAIN glossaryTerms |->
                 [term     |-> glossaryTerms[i].term,
                  id       |-> glossaryTerms[i].id,
                  category |-> OrElse(glossaryTerms[i].category, Term)]],
             MaxTermLength(glossaryTerms))

\* termSet: the lower-cased terms
TermSet(sortedTerms) == {toLowerCase(sortedTerms[i].term) : i \in DOMAIN sortedTerms}

\* termLookup: lower-cased term -> {id, category}; a later set() of the same
\* key replaces the earlier one
TermLookup(sortedTerms) ==
    [k \in TermSet(sortedTerms) |->
        LET i == CHOOSE i \in DOMAIN sortedTerms :
                     /\ toLowerCase(sortedTerms[i].term) = k
                     /\ \A j \in DOMAIN sortedTerms :
                            toLowerCase(sortedTerms[j].term) = k => j <= i
        IN  [id |-> sortedTerms[i].id, category |-> sortedTerms[i].category]]

\* new RegExp(escapedTerms.join('|'), 'gi')
Pattern(sortedTerms) == RegExp(PatternSource(EscapedTerms(sortedTerms)))

\* a blank between the category and the id
PlaceholderBlank(category, id) == <<"[">> \o category \o <<" ">> \o id \o <<"]">>

\* `[${info.category}_${info.id}]`
Placeholder(category, id) == <<"[">> \o category \o <<"_">> \o id \o <<"]">>

\* the callback of source.replace(pattern, ...)
MaskCallback(match, termLookup) ==
    IF toLowerCase(match) \in DOMAIN termLookup
    THEN Placeholder(termLookup[toLowerCase(match)].category,
                     termLookup[toLowerCase(match)].id)
    ELSE match

\* one replacement pass per term, the longest term first: the spans taken
\* after the passes of the terms k..
RECURSIVE SpansByTerm(_, _, _, _)
SpansByTerm(source, sortedTerms, k, taken) ==
    IF k > Len(sortedTerms) THEN taken
    ELSE LET found == Matches(Pattern(<<sortedTerms[k]>>), source, 1)
             free == {found[i] : i \in DOMAIN found}
         IN  SpansByTerm(source, sortedTerms, k + 1,
                         taken \cup {f \in free :
                                        \A t \in taken : f[2] < t[1] \/ t[2] < f[1]})

\* the longer term wins over every term that overlaps it
MaskSpansByLength(source, sortedTerms) ==
    LET S == SpansByTerm(source, sortedTerms, 1, {})
    IN  [i \in 1..Cardinality(S) |->
            CHOOSE x \in S : Cardinality({t \in S : t[1] < x[1]}) = i - 1]

\* the spans of source that the pattern of sortedTerms matches
MaskSpans(source, sortedTerms) == Matches(Pattern(sortedTerms), source, 1)

\* newMasked = source.replace(pattern, callback)
MaskText(source, sortedTerms) ==
    LET spans == MaskSpans(source, sortedTerms)
        termLookup == TermLookup(sortedTerms)
    IN  ReplaceSpans(source, spans,
                     [i \in DOMAIN spans |->
                         MaskCallback(SubSeq(source, spans[i][1], spans[i][2]), termLookup)],
                     1, 1)

----------------------------------------------------------------------------
(* The translation engine: glossary cache and unmask *)

\* loadGlossaryCache: `[${term.category}_${term.id}]` -> term.term; later rows
\* replace earlier rows of the same key
loadGlossaryCache(terms) ==
    LET KeyOf(i) == Placeholder(IF terms[i].category = NULL
                                THEN <<"n","u","l","l">> ELSE terms[i].category,
                                terms[i].id)
    IN  [k \in {KeyOf(i) : i \in DOMAIN terms} |->
            terms[CHOOSE i \in DOMAIN terms :
                      KeyOf(i) = k /\ \A j \in DOMAIN terms : KeyOf(j) = k => j <= i].term]

\* the longest run of characters of a class from position p: the position after it
RECURSIVE SkipClass(_, _, _)
SkipClass(text, p, class) ==
    IF p <= Len(text) /\ text[p] \in class THEN SkipClass(text, p + 1, class) ELSE p

\* /\[([A-Za-z]+)_([a-z0-9]+)\]/ at position p: the position after the match, or 0
MatchPlaceholder(text, p) ==
    IF p > Len(text) \/ text[p] # "[" THEN 0
    ELSE LET q == SkipClass(text, p + 1, Range(LowerLetters) \cup Range(UpperLetters))
         IN  IF q = p + 1 \/ q > Len(text) \/ text[q] # "_" THEN 0
             ELSE LET r == SkipClass(text, q + 1, Range(LowerLetters) \cup Digits)
                  IN  IF r = q + 1 \/ r > Len(text) \/ text[r] # "]" THEN 0
                      ELSE r + 1

\* the spans of the placeholder tokens of text from p on, left to right
RECURSIVE PlaceholderSpans(_, _)
PlaceholderSpans(text, p) ==
    IF p > Len(text) THEN <<>>
    ELSE LET e == MatchPlaceholder(text, p)
         IN  IF e > p THEN <<(<<p, e - 1>>)>> \o PlaceholderSpans(text, e)
             ELSE PlaceholderSpans(text, p + 1)

\* a miss of the cache drops the token
UnmaskCallbackDrop(match, cache) ==
    IF match \in DOMAIN cache THEN cache[match] ELSE <<>>

\* cache.get(match) || match
UnmaskCallback(match, cache) ==
    IF match \in DOMAIN cache THEN OrElse(cache[match], match) ELSE match

\* a pattern without the g flag: only the first token is replaced
unmaskTextFirst(text, cache) ==
    LET all == PlaceholderSpans(text, 1)
        spans == IF all = <<>> THEN <<>> ELSE <<all[1]>>
    IN  ReplaceSpans(text, spans,
                     [i \in DOMAIN spans |->
                         UnmaskCallback(SubSeq(text, spans[i][1], spans[i][2]), cache)],
                     1, 1)

\* text.replace(/\[([A-Za-z]+)_([a-z0-9]+)\]/g, match => cache.get(match) || match)
unmaskText(text, cache) ==
    LET spans == PlaceholderSpans(text, 1)
    IN  ReplaceSpans(text, spans,
                     [i \in DOMAIN spans |->
                         UnmaskCallback(SubSeq(text, spans[i][1], spans[i][2]), cache)],
                     1, 1)

----------------------------------------------------------------------------
(* Bounded inputs *)

\* texts are made of at most MaxChunks chunks
MaxChunks == 3

Ab == <<"A","b">>

ab == <<"a","b">>

AbB == <<"A","b"," ","b">>

bDot == <<"b",".">>

Id1 == <<"1","a">>

Id2 == <<"2","b">>

\* what Math.random().toString(36).substring(2, 7) may return
IdPool == {Id1, Id2}

Chunks ==
    { Ab, ab, <<"b">>, <<" ">>, <<".">>, <<"[">>, <<"]">>,
      Placeholder(Name, Id1), Placeholder(Name, <<"9">>) }

RECURSIVE SeqsUpTo(_, _)
SeqsUpTo(S, n) ==
    IF n = 0 THEN {<<>>}
    ELSE LET shorter == SeqsUpTo(S, n - 1)
         IN  shorter \cup {Append(q, x) : q \in shorter, x \in S}

Texts == {Concat(q) : q \in SeqsUpTo(Chunks, MaxChunks)}

\* the glossary directories: <subdir>/names_only.json and its items
GlossaryDirs ==
    { <<>>,
      <<[subdir |-> "skyrim_characters", items |-> <<Ab>>]>>,
      <<[subdir |-> "skyrim_characters", items |-> <<Ab, AbB>>]>>,
      <<[subdir |-> "skyrim_characters", items |-> <<Ab>>],
        [subdir |-> "skyrim_locations", items |-> <<ab, Ab>>]>>,
      <<[subdir |-> "unknown", items |-> <<(<<>>), bDot>>]>> }

\* the sequences of n ids drawn from the pool
IdSeqs(n) == [1..n -> IdPool]

\* the glossary tables a build phase can leave
GlossaryTables ==
    UNION { { GlossaryRows(UniqueTerms(LoadRawTerms(d), {}), ids) :
                ids \in { i \in IdSeqs(Len(UniqueTerms(LoadRawTerms(d), {}))) :
                            InsertAccepted(GlossaryRows(UniqueTerms(LoadRawTerms(d), {}), i)) } } :
            d \in GlossaryDirs }

----------------------------------------------------------------------------
(* The masking functions applied to bounded inputs *)

NoRun == [phase |-> "none"]

FnInit ==
    /\ glossary \in GlossaryTables
    /\ fn \in [stage : {"input"}, text : Texts, masked : {NULL}, unmasked : {NULL}]
    /\ dialogStrings = <<>>
    /\ pc = "fn"
    /\ mask = NoRun
    /\ tr = NoRun
    /\ hist = NoRun

\* mask: source.replace(pattern, ...) with the matcher of the glossary table
\* (main() returns before it when there is no term)
FnMask ==
    /\ pc = "fn" /\ fn.stage = "input"
    /\ SortedTerms(glossary) # <<>>
    /\ fn' = [fn EXCEPT !.stage = "masked",
                        !.masked = MaskText(fn.text, SortedTerms(glossary))]
    /\ UNCHANGED <<glossary, dialogStrings, pc, mask, tr, hist>>

\* unmask of the masked text, the cache loaded from the same glossary table
FnUnmask ==
    /\ pc = "fn" /\ fn.stage = "masked"
    /\ fn' = [fn EXCEPT !.stage = "unmasked",
                        !.unmasked = unmaskText(fn.masked, loadGlossaryCache(glossary))]
    /\ UNCHANGED <<glossary, dialogStrings, pc, mask, tr, hist>>

\* unmask of a text as the translator may return it
FnUnmaskRaw ==
    /\ pc = "fn" /\ fn.stage = "input"
    /\ fn' = [fn EXCEPT !.stage = "raw",
                        !.unmasked = unmaskText(fn.text, loadGlossaryCache(glossary))]
    /\ UNCHANGED <<glossary, dialogStrings, pc, mask, tr, hist>>

FnNext == FnMask \/ FnUnmask \/ FnUnmaskRaw

SpecMasking == FnInit /\ [][FnNext]_vars

----------------------------------------------------------------------------
(* mask_strings.ts: the pass over the dialog strings *)

\* the auto-fill compares the source as written
AutoFillDestCaseSensitive(record, termSet) ==
    IF record.source \in termSet /\ record.dest # record.source
    THEN record.source
    ELSE record.dest

\* A. Auto-fill: the dest to store for a record whose whole source is a term
AutoFillDest(record, termSet) ==
    IF toLowerCase(record.source) \in termSet /\ record.dest # record.source
    THEN record.source
    ELSE record.dest

\* the update of one record, or no update: {id, dest, maskedSource}
RecordUpdate(record, sortedTerms) ==
    LET dest      == AutoFillDest(record, TermSet(sortedTerms))
        newMasked == MaskText(record.source, sortedTerms)
        masked    == IF newMasked # record.maskedSource THEN newMasked ELSE record.source
    IN  IF dest # record.dest \/ newMasked # record.maskedSource
        THEN <<[id |-> record.id, dest |-> dest, maskedSource |-> masked]>>
        ELSE <<>>

\* updates: one entry per record that has a source and is to be changed
RECURSIVE Updates(_, _)
Updates(allStrings, sortedTerms) ==
    IF allStrings = <<>> THEN <<>>
    ELSE (IF Truthy(Head(allStrings).source)
          THEN RecordUpdate(Head(allStrings), sortedTerms)
          ELSE <<>>) \o Updates(Tail(allStrings), sortedTerms)

\* db.select().from(dialogStrings): the rows in id order
RECURSIVE SelectAll(_, _)
SelectAll(table, id) ==
    IF id \notin DOMAIN table THEN <<>>
    ELSE <<[id |-> id, source |-> table[id].source, dest |-> table[id].dest,
            maskedSource |-> table[id].maskedSource]>> \o SelectAll(table, id + 1)

\* db.update(dialogStrings).set({dest, maskedSource}).where(id = u.id), for
\* every update of the transaction
RECURSIVE ApplyUpdates(_, _)
ApplyUpdates(table, updates) ==
    IF updates = <<>> THEN table
    ELSE ApplyUpdates(
             IF Head(updates).id \in DOMAIN table
             THEN [table EXCEPT ![Head(updates).id].dest = Head(updates).dest,
                                ![Head(updates).id].maskedSource = Head(updates).maskedSource]
             ELSE table,
             Tail(updates))

----------------------------------------------------------------------------
(* The translation engine: selection, grouping, saving *)

\* the selection without its where clause
UntranslatedStringsAll(table) == SelectAll(table, 1)

\* db.select().from(dialogStrings).where(eq(dialogStrings.dest, ''))
UntranslatedStrings(table) == SelectSeq(SelectAll(table, 1), LAMBDA r : r.dest = <<>>)

\* the grouping text is the source
TextKeySource(record) == record.source

\* record.maskedSource || record.source
TextKey(record) == OrElse(record.maskedSource, record.source)

\* every record opens a group of its own
AddToGroupNew(groups, record) ==
    Append(groups, [text |-> TextKey(record), records |-> <<record>>])

\* groupedBySource.get(textKey).push(record), a new group for a new key
AddToGroup(groups, record) ==
    IF \E g \in DOMAIN groups : groups[g].text = TextKey(record)
    THEN [g \in DOMAIN groups |->
             IF groups[g].text = TextKey(record)
             THEN [groups[g] EXCEPT !.records = Append(@, record)]
             ELSE groups[g]]
    ELSE Append(groups, [text |-> TextKey(record), records |-> <<record>>])

\* uniqueTexts: the entries of groupedBySource in insertion order; records
\* without a source, or with a blank one, are skipped
RECURSIVE GroupBySource(_, _)
GroupBySource(records, groups) ==
    IF records = <<>> THEN groups
    ELSE GroupBySource(Tail(records),
             IF ~Truthy(Head(records).source) \/ trim(Head(records).source) = <<>>
             THEN groups
             ELSE AddToGroup(groups, Head(records)))

\* what translateText(text) may return: the model's translation, or the text
\* itself when the attempts fail or the answer has no translation
translateText(text) == {text, <<"x", " ">> \o text, <<"x">>}

\* the first n records of the group get dest (the n-th update is the last
\* that succeeded)
RECURSIVE SaveDest(_, _, _, _)
SaveDest(table, records, n, dest) ==
    IF n = 0 THEN table
    ELSE SaveDest(IF Head(records).id \in DOMAIN table
                  THEN [table EXCEPT ![Head(records).id].dest = dest]
                  ELSE table,
                  Tail(records), n - 1, dest)

----------------------------------------------------------------------------
(* The scripts as a state machine: one script runs at a time *)

\* number of dialog strings in the table
NumRecords == 2

\* number of script runs in a behaviour
MaxRuns == 2

abB == <<"a","b"," ","b">>

\* the sources of the imported strings
Sources == {<<>>, <<" ">>, Ab, AbB, abB}

\* import_strings.ts: source from the file, dest '', masked_source NULL
Init ==
    /\ glossary = <<>>
    /\ dialogStrings \in [1..NumRecords ->
                             [source : Sources, dest : {<<>>}, maskedSource : {NULL}]]
    /\ pc = "idle"
    /\ mask = NoRun
    /\ tr = NoRun
    /\ hist = [runs |-> 0, last |-> "none", before |-> <<>>, calls |-> <<>>, results |-> <<>>]
    /\ fn = NoRun

\* 1.-2. load the glossary files, db.delete(glossary)
MaskStart ==
    /\ pc = "idle" /\ hist.runs < MaxRuns
    /\ \E dirs \in GlossaryDirs :
           mask' = [phase |-> "populate", rawTerms |-> LoadRawTerms(dirs),
                    sortedTerms |-> <<>>, updates |-> <<>>]
    /\ glossary' = <<>>
    /\ pc' = "mask_populate"
    /\ tr' = NoRun
    /\ hist' = [hist EXCEPT !.runs = @ + 1, !.last = "mask", !.before = dialogStrings,
                            !.calls = <<>>, !.results = <<>>]
    /\ UNCHANGED <<dialogStrings, fn>>

\* 2.-3. insert the unique terms under fresh ids, read them back, sort them;
\* return when there is no term.  An insert that violates a key constraint
\* throws and ends the run with the table empty.
MaskPopulate ==
    /\ pc = "mask_populate"
    /\ LET uniqueTerms == UniqueTerms(mask.rawTerms, {})
       IN  \E ids \in IdSeqs(Len(uniqueTerms)) :
               LET rows == GlossaryRows(uniqueTerms, ids)
               IN  IF InsertAccepted(rows)
                   THEN /\ glossary' = rows
                        /\ mask' = IF SortedTerms(rows) = <<>> THEN NoRun
                                   ELSE [mask EXCEPT !.phase = "scan",
                                                     !.sortedTerms = SortedTerms(rows)]
                        /\ IF SortedTerms(rows) = <<>>
                           THEN /\ pc' = "idle"
                                /\ hist' = [hist EXCEPT !.last = "mask_noterms"]
                           ELSE /\ pc' = "mask_scan"
                                /\ hist' = hist
                   ELSE /\ glossary' = glossary
                        /\ mask' = NoRun
                        /\ pc' = "idle"
                        /\ hist' = [hist EXCEPT !.last = "mask_failed"]
    /\ UNCHANGED <<dialogStrings, tr, fn>>

\* 4. read all dialog strings and compute the updates
MaskScan ==
    /\ pc = "mask_scan"
    /\ mask' = [mask EXCEPT !.phase = "update",
                            !.updates = Updates(SelectAll(dialogStrings, 1), mask.sortedTerms)]
    /\ pc' = "mask_update"
    /\ UNCHANGED <<glossary, dialogStrings, tr, hist, fn>>

\* 5. BEGIN TRANSACTION, every update, COMMIT
MaskCommit ==
    /\ pc = "mask_update"
    /\ dialogStrings' = ApplyUpdates(dialogStrings, mask.updates)
    /\ mask' = NoRun
    /\ pc' = "idle"
    /\ hist' = [hist EXCEPT !.last = "mask_commit"]
    /\ UNCHANGED <<glossary, tr, fn>>

\* 5. an update or the commit throws: ROLLBACK
MaskRollback ==
    /\ pc = "mask_update"
    /\ mask' = NoRun
    /\ pc' = "idle"
    /\ hist' = [hist EXCEPT !.last = "mask_rollback"]
    /\ UNCHANGED <<glossary, dialogStrings, tr, fn>>

\* load the cache, select the untranslated strings, group them
TrStart ==
    /\ pc = "idle" /\ hist.runs < MaxRuns
    /\ LET untranslatedStrings == UntranslatedStrings(dialogStrings)
       IN  /\ tr' = [phase |-> "run",
                     cache |-> loadGlossaryCache(glossary),
                     untranslatedStrings |-> untranslatedStrings,
                     uniqueTexts |-> GroupBySource(untranslatedStrings, <<>>),
                     i |-> 1, translatedMasked |-> NULL,
                     successCount |-> 0, errorCount |-> 0]
           /\ pc' = IF untranslatedStrings = <<>> THEN "idle" ELSE "tr_loop"
           /\ hist' = [hist EXCEPT !.runs = @ + 1,
                                   !.last = IF untranslatedStrings = <<>>
                                            THEN "tr_nothing" ELSE "tr",
                                   !.before = dialogStrings,
                                   !.calls = <<>>, !.results = <<>>]
    /\ UNCHANGED <<glossary, dialogStrings, mask, fn>>

\* 1. translatedMasked = await translateText(textToTranslate)
TrTranslate ==
    /\ pc = "tr_loop" /\ tr.i <= Len(tr.uniqueTexts)
    /\ \E result \in translateText(tr.uniqueTexts[tr.i].text) :
           /\ tr' = [tr EXCEPT !.translatedMasked = result]
           /\ hist' = [hist EXCEPT !.calls = Append(@, tr.uniqueTexts[tr.i].text),
                                   !.results = Append(@, result)]
    /\ pc' = "tr_save"
    /\ UNCHANGED <<glossary, dialogStrings, mask, fn>>

\* 2.-3. unmask the translation and save it to every record of the group
TrSave ==
    /\ pc = "tr_save"
    /\ dialogStrings' = SaveDest(dialogStrings, tr.uniqueTexts[tr.i].records,
                                 Len(tr.uniqueTexts[tr.i].records),
                                 unmaskText(tr.translatedMasked, tr.cache))
    /\ tr' = [tr EXCEPT !.i = @ + 1, !.successCount = @ + 1]
    /\ pc' = "tr_loop"
    /\ UNCHANGED <<glossary, mask, hist, fn>>

\* 3. an update of the group throws: the records before it are saved
TrSaveError ==
    /\ pc = "tr_save"
    /\ \E n \in 0..(Len(tr.uniqueTexts[tr.i].records) - 1) :
           dialogStrings' = SaveDest(dialogStrings, tr.uniqueTexts[tr.i].records, n,
                                     unmaskText(tr.translatedMasked, tr.cache))
    /\ tr' = [tr EXCEPT !.i = @ + 1, !.errorCount = @ + 1]
    /\ pc' = "tr_loop"
    /\ UNCHANGED <<glossary, mask, hist, fn>>

\* the loop is over: completion notice and summary
TrFinish ==
    /\ pc = "tr_loop" /\ tr.i > Len(tr.uniqueTexts)
    /\ tr' = [tr EXCEPT !.phase = "done"]
    /\ pc' = "idle"
    /\ hist' = [hist EXCEPT !.last = "tr_done"]
    /\ UNCHANGED <<glossary, dialogStrings, mask, fn>>

Next ==
    \/ MaskStart \/ MaskPopulate \/ MaskScan \/ MaskCommit \/ MaskRollback
    \/ TrStart \/ TrTranslate \/ TrSave \/ TrSaveError \/ TrFinish

Spec == Init /\ [][Next]_vars

----------------------------------------------------------------------------
(* Claims about the masking functions (SpecMasking) *)

HasBracket(text) == \E p \in DOMAIN text : text[p] \in {"[", "]"}

\* no two glossary rows have terms that are equal when lower-cased
CaseInsensitiveUnique(rows) ==
    \A i, j \in DOMAIN rows :
        i # j => toLowerCase(rows[i].term) # toLowerCase(rows[j].term)

\* C1: unmask(mask(text)) = text for every text without bracket syntax, in
\* whatever letter case the glossary terms occur in it (the glossary terms
\* being distinct case-insensitively).
C1_RoundTrip ==
    (/\ fn.stage = "unmasked"
     /\ ~HasBracket(fn.text)
     /\ CaseInsensitiveUnique(glossary))
    => fn.unmasked = fn.text

\* the glossary term, anchored as the pattern anchors it, matches at p
\* (case-insensitively): the position after the occurrence, or 0
TermMatchEnd(term, text, p) ==
    MatchAtoms(RegExp(<<"\\", "b">> \o escapeRegExp(term) \o <<"\\", "b">>)[1], 1, text, p)

\* the rows of the glossary whose term matches as a whole word at p
MatchingAt(rows, text, p) == {i \in DOMAIN rows : TermMatchEnd(rows[i].term, text, p) # 0}

\* the longest of the rows in I
Longest(rows, I) == {i \in I : \A j \in I : Len(rows[j].term) <= Len(rows[i].term)}

\* the spans obtained by taking, at each position mask comes to, the longest
\* of the terms that match there
RECURSIVE LongestSpans(_, _, _)
LongestSpans(rows, text, p) ==
    IF p > Len(text) THEN <<>>
    ELSE IF MatchingAt(rows, text, p) = {} THEN LongestSpans(rows, text, p + 1)
    ELSE LET i == CHOOSE i \in Longest(rows, MatchingAt(rows, text, p)) : TRUE
             e == p + Len(rows[i].term)
         IN  <<(<<p, e - 1>>)>> \o LongestSpans(rows, text, e)

\* C3: at a position where several glossary terms match as whole words, mask
\* replaces the span of the longest of them by one placeholder of that term;
\* a shorter term is never masked there.
C3_LongestMatch ==
    fn.stage = "masked" =>
        LET spans == LongestSpans(glossary, fn.text, 1)
        IN  /\ \A k \in DOMAIN spans :
                  \E i \in Longest(glossary, MatchingAt(glossary, fn.text, spans[k][1])) :
                      MaskCallback(SubSeq(fn.text, spans[k][1], spans[k][2]),
                                   TermLookup(SortedTerms(glossary)))
                          = Placeholder(glossary[i].category, glossary[i].id)
            /\ fn.masked =
                  ReplaceSpans(fn.text, spans,
                               [k \in DOMAIN spans |->
                                   MaskCallback(SubSeq(fn.text, spans[k][1], spans[k][2]),
                                                TermLookup(SortedTerms(glossary)))],
                               1, 1)

\* a masked text in which a term and a longer term that it begins matched at
\* the same position
C3_Witness ==
    /\ fn.stage = "masked"
    /\ \E p \in DOMAIN fn.text : \E i, j \in MatchingAt(glossary, fn.text, p) :
           Len(glossary[i].term) < Len(glossary[j].term)
    /\ fn.masked # fn.text

\* C4: every span that mask replaces is a whole word: the character before
\* it and the character after it are not a letter, a digit or an underscore.
C4_WordBoundary ==
    fn.stage = "masked" =>
        \A k \in DOMAIN MaskSpans(fn.text, SortedTerms(glossary)) :
            LET span == MaskSpans(fn.text, SortedTerms(glossary))[k]
            IN  /\ span[1] > 1 => ~IsWordChar(fn.text[span[1] - 1])
                /\ span[2] < Len(fn.text) => ~IsWordChar(fn.text[span[2] + 1])

\* text[i..j] is a bracketed token of the grammar [A-Za-z]+_[a-z0-9]+
IsToken(text, i, j) ==
    /\ i < j /\ text[i] = "[" /\ text[j] = "]"
    /\ \E u \in (i + 2)..(j - 2) :
           /\ text[u] = "_"
           /\ \A k \in (i + 1)..(u - 1) : IsLower(text[k]) \/ IsUpper(text[k])
           /\ \A k \in (u + 1)..(j - 1) : IsLower(text[k]) \/ text[k] \in Digits

\* what position p of text contributes to the unmasked text
FailOpenPiece(text, cache, p) ==
    IF \E j \in DOMAIN text : IsToken(text, p, j)
    THEN LET j == CHOOSE j \in DOMAIN text : IsToken(text, p, j)
             token == SubSeq(text, p, j)
         IN  IF token \in DOMAIN cache THEN cache[token] ELSE token
    ELSE IF \E i, j \in DOMAIN text : IsToken(text, i, j) /\ i < p /\ p <= j
    THEN <<>>
    ELSE <<text[p]>>

\* C10: unmask replaces each bracketed token of the placeholder grammar by
\* the cache's term when the token is a key of the cache, leaves it as it is
\* when it is not, and leaves all other text unchanged.
C10_FailOpen ==
    fn.stage = "raw" =>
        fn.unmasked =
            Concat([p \in DOMAIN fn.text |->
                       FailOpenPiece(fn.text, loadGlossaryCache(glossary), p)])

\* an unmasked text that had a token of the cache and a token unknown to it
C10_Witness ==
    /\ fn.stage = "raw"
    /\ \E i, j, k, l \in DOMAIN fn.text :
           /\ IsToken(fn.text, i, j) /\ IsToken(fn.text, k, l)
           /\ SubSeq(fn.text, i, j) \in DOMAIN loadGlossaryCache(glossary)
           /\ SubSeq(fn.text, k, l) \notin DOMAIN loadGlossaryCache(glossary)
    /\ fn.unmasked # fn.text

----------------------------------------------------------------------------
(* Claims about the mask run (Spec) *)

\* a mask run has ended and no script has been started since
MaskRunEnded ==
    pc = "idle" /\ hist.last \in {"mask_noterms", "mask_failed", "mask_commit", "mask_rollback"}

\* the whole source is a term of the glossary table, compared case-insensitively
SourceIsTerm(source) ==
    \E i \in DOMAIN glossary : toLowerCase(glossary[i].term) = toLowerCase(source)

\* C2 as claimed: a mask run leaves the dest of every record as it was.
C2_DestUnchanged ==
    MaskRunEnded =>
        \A id \in DOMAIN dialogStrings : dialogStrings[id].dest = hist.before[id].dest

\* C2 amended: a mask run that commits sets dest to the source for every
\* record whose whole non-empty source is a glossary term in any letter case;
\* the dest of every other record, and of every record when the run ends
\* without committing, is as it was, and no source is changed.
C2_DestAutoFill ==
    MaskRunEnded =>
        \A id \in DOMAIN dialogStrings :
            /\ dialogStrings[id].source = hist.before[id].source
            /\ dialogStrings[id].dest =
                   IF /\ hist.last = "mask_commit"
                      /\ Truthy(dialogStrings[id].source)
                      /\ SourceIsTerm(dialogStrings[id].source)
                   THEN dialogStrings[id].source
                   ELSE hist.before[id].dest

\* a committed mask run over a record whose source is a term in another
\* letter case, and a record whose source is none
C2_Witness ==
    /\ MaskRunEnded /\ hist.last = "mask_commit"
    /\ \E id \in DOMAIN dialogStrings :
           /\ dialogStrings[id].dest # hist.before[id].dest
           /\ \A i \in DOMAIN glossary : glossary[i].term # dialogStrings[id].source
    /\ \E id \in DOMAIN dialogStrings :
           /\ Truthy(dialogStrings[id].source)
           /\ dialogStrings[id].maskedSource # hist.before[id].maskedSource
           /\ dialogStrings[id].dest = hist.before[id].dest

\* C7: after the build phase no two glossary entries have terms equal
\* case-insensitively, and the lookup entry of each term's lower-cased key is
\* that term's own id and category.
C7_TermsUniqueIgnoringCase ==
    pc = "mask_scan" =>
        /\ CaseInsensitiveUnique(glossary)
        /\ \A i \in DOMAIN mask.sortedTerms :
               TermLookup(mask.sortedTerms)[toLowerCase(mask.sortedTerms[i].term)]
                   = [id |-> mask.sortedTerms[i].id, category |-> mask.sortedTerms[i].category]

\* C8: after a mask run with no glossary term, the masked text of every
\* record with a source is its source.
C8_NoTermsIdentity ==
    (pc = "idle" /\ hist.last = "mask_noterms") =>
        \A id \in DOMAIN dialogStrings :
            Truthy(dialogStrings[id].source) =>
                TextKey(dialogStrings[id]) = dialogStrings[id].source

----------------------------------------------------------------------------
(* Claims about the translation run (Spec) *)

\* a translation run is in its loop or has ended, no script started since
InTranslationRun == pc \in {"tr_loop", "tr_save"} \/ (pc = "idle" /\ hist.last = "tr_done")

\* the masked form of a source under the glossary table as it stands
MaskedForm(source) ==
    IF SortedTerms(glossary) = <<>> THEN source
    ELSE MaskText(source, SortedTerms(glossary))

\* C5 as claimed: a mask run has written the masked text of every record
\* before the translation run groups it, every text sent to the translator
\* is the masked form of the source of the records of its group, and the
\* dest written is the unmask of the translator's result.
C5_MaskedBeforeGrouping ==
    InTranslationRun =>
        \A g \in DOMAIN hist.calls :
            \A k \in DOMAIN tr.uniqueTexts[g].records :
                /\ tr.uniqueTexts[g].records[k].maskedSource # NULL
                /\ hist.calls[g] = MaskedForm(tr.uniqueTexts[g].records[k].source)

\* the dests the run has written so far: group g got unmask(result g) in its
\* first written[g] records
RECURSIVE DestsWritten(_, _, _)
DestsWritten(table, g, written) ==
    IF g > Len(written) THEN table
    ELSE DestsWritten(SaveDest(table, tr.uniqueTexts[g].records, written[g],
                               unmaskText(hist.results[g], tr.cache)),
                      g + 1, written)

\* C5 amended: every text sent to the translator is the stored maskedSource
\* of the records of its group, or their source when no maskedSource is
\* stored (no mask run is required to have written it); every dest the run
\* writes is the unmask, by the cache loaded at the start, of the result the
\* translator returned for the record's group.
C5_StoredMaskThenUnmask ==
    InTranslationRun =>
        /\ \A g \in DOMAIN hist.calls :
               /\ hist.calls[g] = tr.uniqueTexts[g].text
               /\ \A k \in DOMAIN tr.uniqueTexts[g].records :
                      LET id == tr.uniqueTexts[g].records[k].id
                      IN  hist.calls[g] =
                              IF Truthy(hist.before[id].maskedSource)
                              THEN hist.before[id].maskedSource
                              ELSE hist.before[id].source
        /\ \E written \in [1..(tr.i - 1) -> 0..NumRecords] :
               /\ \A g \in DOMAIN written : written[g] <= Len(tr.uniqueTexts[g].records)
               /\ dialogStrings = DestsWritten(hist.before, 1, written)

\* a run that sent a stored masked text with a placeholder and wrote a dest
\* in which unmask resolved it
C5_Witness ==
    /\ pc = "tr_loop"
    /\ \E g \in 1..(tr.i - 1) : \E k \in DOMAIN tr.uniqueTexts[g].records :
           LET id == tr.uniqueTexts[g].records[k].id
           IN  /\ hist.before[id].maskedSource = hist.calls[g]
               /\ hist.before[id].maskedSource # hist.before[id].source
               /\ hist.results[g] # hist.calls[g]
               /\ dialogStrings[id].dest # hist.results[g]
               /\ dialogStrings[id].dest # <<>>

\* the records the run selects and groups: dest '' at its start, a source
\* that is not blank
Selected ==
    {id \in DOMAIN hist.before :
        /\ hist.before[id].dest = <<>>
        /\ Truthy(hist.before[id].source)
        /\ trim(hist.before[id].source) # <<>>}

\* the grouping text of a record at the start of the run
KeyAtStart(id) == OrElse(hist.before[id].maskedSource, hist.before[id].source)

\* the invocations of translateText that were given text
CallsOf(text) == {g \in DOMAIN hist.calls : hist.calls[g] = text}

\* C6: when a translation run has finished, translateText was invoked exactly
\* once for each distinct grouping text of the selected records and for no
\* other text, and if no save failed every selected record has the unmasked
\* result of the invocation for its text as dest.
C6_OncePerText ==
    (pc = "idle" /\ hist.last = "tr_done") =>
        /\ \A id \in Selected : Cardinality(CallsOf(KeyAtStart(id))) = 1
        /\ \A g \in DOMAIN hist.calls : \E id \in Selected : hist.calls[g] = KeyAtStart(id)
        /\ tr.errorCount = 0 =>
               \A id \in Selected : \A g \in CallsOf(KeyAtStart(id)) :
                   dialogStrings[id].dest = unmaskText(hist.results[g], tr.cache)

\* a finished run without error in which two records with different sources
\* shared one grouping text and one invocation
C6_Witness ==
    /\ pc = "idle" /\ hist.last = "tr_done" /\ tr.errorCount = 0
    /\ \E a, b \in Selected :
           /\ hist.before[a].source # hist.before[b].source
           /\ KeyAtStart(a) = KeyAtStart(b)
           /\ dialogStrings[a].dest = dialogStrings[b].dest
           /\ dialogStrings[a].dest # <<>>

\* C9: a record whose dest is not empty when a translation run starts is in
\* no group of the run, and the run leaves its dest as it was.
C9_Resume ==
    InTranslationRun =>
        \A id \in DOMAIN dialogStrings :
            hist.before[id].dest # <<>> =>
                /\ dialogStrings[id].dest = hist.before[id].dest
                /\ \A g \in DOMAIN tr.uniqueTexts :
                       \A k \in DOMAIN tr.uniqueTexts[g].records :
                           tr.uniqueTexts[g].records[k].id # id

\* a run that found one record with a dest and wrote the dest of another
C9_Witness ==
    /\ InTranslationRun
    /\ \E id \in DOMAIN dialogStrings : hist.before[id].dest # <<>>
    /\ \E id \in DOMAIN dialogStrings :
           hist.before[id].dest = <<>> /\ dialogStrings[id].dest # <<>>

----------------------------------------------------------------------------
(* unmaskText applied to its own result (SpecUnmask) *)

BracketName == <<"[","N","a","m","e">>

\* glossary directories, one of them with items that carry bracket characters
UnmaskDirs ==
    { <<[subdir |-> "skyrim_characters", items |-> <<Ab>>]>>,
      <<[subdir |-> "skyrim_characters", items |-> <<Ab>>],
        [subdir |-> "skyrim_locations", items |-> <<ab, Ab>>]>>,
      <<[subdir |-> "skyrim_characters", items |-> <<BracketName, <<"]">> >>]>> }

\* the glossary tables that a build phase over the directories D can leave
TablesOf(D) ==
    UNION { { GlossaryRows(UniqueTerms(LoadRawTerms(d), {}), ids) :
                ids \in { i \in IdSeqs(Len(UniqueTerms(LoadRawTerms(d), {}))) :
                            InsertAccepted(GlossaryRows(UniqueTerms(LoadRawTerms(d), {}), i)) } } :
            d \in D }

UnmaskChunks ==
    { Ab, <<" ">>, <<"[">>, <<"_">> \o Id1,
      Placeholder(Name, Id1), Placeholder(Name, Id2),
      Placeholder(Location, Id2), Placeholder(Name, <<"9">>) }

UnmaskTexts == {Concat(q) : q \in SeqsUpTo(UnmaskChunks, MaxChunks)}

UnmaskInit ==
    /\ glossary \in TablesOf(UnmaskDirs)
    /\ fn \in [stage : {"input"}, text : UnmaskTexts, unmasked : {NULL}, again : {NULL}]
    /\ dialogStrings = <<>>
    /\ pc = "fn"
    /\ mask = NoRun
    /\ tr = NoRun
    /\ hist = NoRun

\* unmask of the unmasked text, with the same cache
FnUnmaskAgain ==
    /\ pc = "fn" /\ fn.stage = "raw"
    /\ fn' = [fn EXCEPT !.stage = "again",
                        !.again = unmaskText(fn.unmasked, loadGlossaryCache(glossary))]
    /\ UNCHANGED <<glossary, dialogStrings, pc, mask, tr, hist>>

UnmaskNext == FnUnmaskRaw \/ FnUnmaskAgain

SpecUnmask == UnmaskInit /\ [][UnmaskNext]_vars

\* every bracket of text is part of a token of the placeholder grammar
NoPartialPlaceholder(text) ==
    \A p \in DOMAIN text :
        text[p] \in {"[", "]"} =>
            \E i, j \in DOMAIN text : IsToken(text, i, j) /\ i <= p /\ p <= j

\* C11 (as stated): for every cache built from a glossary and every text x
\* without partial placeholders, unmask(unmask(x)) = unmask(x).
C11_UnmaskIdempotent ==
    (fn.stage = "again" /\ NoPartialPlaceholder(fn.text))
        => fn.again = fn.unmasked

\* C11 (amended): for every cache built from a glossary whose terms contain
\* no bracket and every text x without partial placeholders,
\* unmask(unmask(x)) = unmask(x).
C11_UnmaskIdempotentPlainTerms ==
    (/\ fn.stage = "again"
     /\ NoPartialPlaceholder(fn.text)
     /\ \A i \in DOMAIN glossary : ~HasBracket(glossary[i].term))
    => fn.again = fn.unmasked

\* a text of two tokens of the cache and other text, unmasked twice, with a
\* glossary of plain terms
C11_Witness ==
    /\ fn.stage = "again"
    /\ NoPartialPlaceholder(fn.text)
    /\ \A i \in DOMAIN glossary : ~HasBracket(glossary[i].term)
    /\ \E i, j, k, l \in DOMAIN fn.text :
           /\ j < k /\ IsToken(fn.text, i, j) /\ IsToken(fn.text, k, l)
           /\ SubSeq(fn.text, i, j) \in DOMAIN loadGlossaryCache(glossary)
           /\ SubSeq(fn.text, k, l) \in DOMAIN loadGlossaryCache(glossary)
    /\ fn.unmasked # fn.text

----------------------------------------------------------------------------
(* schema.ts: the anomaly classifier *)

\* enum AnomalyType
MISSING == "missing"

SAME == "same"

DLC == "dlc"

TECHNICAL == "tech"

PUNCTUATION == "punct"

\* the pattern is matched as written
isDLCCaseSensitive(text) ==
    \/ \E p \in DOMAIN text :
           /\ p + 3 <= Len(text)
           /\ SubSeq(text, p, p + 2) = <<"D","L","C">>
           /\ text[p + 3] \in Digits
    \/ (Len(text) >= 3 /\ SubSeq(text, 1, 3) = <<"D","L","C">>)

\* /DLC\d+/i.test(text) || text.startsWith("DLC")
isDLC(text) ==
    \/ \E p \in DOMAIN text :
           /\ p + 3 <= Len(text)
           /\ \A k \in 0..2 : Canonicalize(text[p + k]) = Canonicalize(<<"D","L","C">>[k + 1])
           /\ text[p + 3] \in Digits
    \/ (Len(text) >= 3 /\ SubSeq(text, 1, 3) = <<"D","L","C">>)

\* (text.match(/[A-Z]/g) || []).length
RECURSIVE upperCount(_)
upperCount(text) ==
    IF text = <<>> THEN 0
    ELSE (IF IsUpper(Head(text)) THEN 1 ELSE 0) + upperCount(Tail(text))

\* one upper-case letter is enough
isTechnicalAnyUpper(text) ==
    IF \E p \in DOMAIN text : text[p] = " " THEN FALSE
    ELSE IF ~(\E p \in DOMAIN text : IsUpper(text[p])) THEN FALSE
    ELSE TRUE

isTechnical(text) ==
    IF \E p \in DOMAIN text : text[p] = " " THEN FALSE
    ELSE LET hasUpper == \E p \in DOMAIN text : IsUpper(text[p])
         IN  IF ~hasUpper THEN FALSE
             ELSE LET hasNumber == \E p \in DOMAIN text : text[p] \in Digits
                      hasUnderscore == \E p \in DOMAIN text : text[p] = "_"
                  IN  hasNumber \/ hasUnderscore \/ upperCount(text) > 1

\* s.replace(/[^<>"]/g, '')
RECURSIVE getCriticalPunctuation(_)
getCriticalPunctuation(s) ==
    IF s = <<>> THEN <<>>
    ELSE (IF Head(s) \notin {"<", ">", "\""} THEN <<>> ELSE <<Head(s)>>)
         \o getCriticalPunctuation(Tail(s))

\* the critical characters are counted, not compared
isPunctuationMismatchCount(source, dest) ==
    IF ~Truthy(dest) THEN FALSE
    ELSE Len(getCriticalPunctuation(source)) # Len(getCriticalPunctuation(dest))

isPunctuationMismatch(source, dest) ==
    IF ~Truthy(dest) THEN FALSE
    ELSE getCriticalPunctuation(source) # getCriticalPunctuation(dest)

\* `if` in the place of `else if`
getAnomalyTypesNoElse(source, dest) ==
    LET t1 == IF ~Truthy(dest) THEN <<MISSING>> ELSE <<>>
        t2 == IF source = dest THEN Append(t1, SAME)
              ELSE IF Truthy(dest) /\ isPunctuationMismatch(source, dest)
              THEN Append(t1, PUNCTUATION) ELSE t1
        t3 == IF isDLC(source) THEN Append(t2, DLC) ELSE t2
    IN  IF isTechnical(source) THEN Append(t3, TECHNICAL) ELSE t3

getAnomalyTypes(source, dest) ==
    LET t1 == IF ~Truthy(dest) THEN <<MISSING>>
              ELSE IF source = dest THEN <<SAME>>
              ELSE IF isPunctuationMismatch(source, dest) THEN <<PUNCTUATION>>
              ELSE <<>>
        t2 == IF isDLC(source) THEN Append(t1, DLC) ELSE t1
    IN  IF isTechnical(source) THEN Append(t2, TECHNICAL) ELSE t2

(* The classifier applied to bounded inputs (SpecAnomaly) *)

AnomalyChunks ==
    { <<"D","L","C">>, <<"d","l","c">>, <<"1">>, <<"x">>, <<"A">>, <<"_">>,
      <<" ">>, <<"<">>, <<">">>, <<"\"">> }

AnomalySources == {Concat(q) : q \in SeqsUpTo(AnomalyChunks, MaxChunks)}

Reverse(s) == [i \in DOMAIN s |-> s[Len(s) + 1 - i]]

\* the dest column next to a source: NULL, empty, the source itself, and
\* translations that differ from it
AnomalyDests(source) ==
    { NULL, <<>>, source, toLowerCase(source), Reverse(source),
      source \o <<"x">>, source \o <<"<">>, <<"\"">> \o source }

AnomalyInit ==
    /\ \E source \in AnomalySources : \E dest \in AnomalyDests(source) :
           fn = [stage |-> "input", source |-> source, dest |-> dest, types |-> <<>>]
    /\ glossary = <<>>
    /\ dialogStrings = <<>>
    /\ pc = "fn"
    /\ mask = NoRun
    /\ tr = NoRun
    /\ hist = NoRun

Classify ==
    /\ pc = "fn" /\ fn.stage = "input"
    /\ fn' = [fn EXCEPT !.stage = "classified",
                        !.types = getAnomalyTypes(fn.source, fn.dest)]
    /\ UNCHANGED <<glossary, dialogStrings, pc, mask, tr, hist>>

AnomalyNext == Classify

SpecAnomaly == AnomalyInit /\ [][AnomalyNext]_vars

\* the tag is in the list of tags
Has(types, tag) == \E i \in DOMAIN types : types[i] = tag

\* C12: the tags contain MISSING iff dest is null or empty, SAME iff dest is
\* non-empty and equal to source, and never both.
C12_MissingSame ==
    fn.stage = "classified" =>
        /\ Has(fn.types, MISSING) <=> (fn.dest = NULL \/ fn.dest = <<>>)
        /\ Has(fn.types, SAME) <=>
               (fn.dest # NULL /\ Len(fn.dest) > 0 /\ fn.dest = fn.source)
        /\ ~(Has(fn.types, MISSING) /\ Has(fn.types, SAME))

\* a classified pair whose dest is the non-empty source
C12_Witness ==
    /\ fn.stage = "classified"
    /\ fn.dest = fn.source /\ fn.source # <<>>
    /\ Has(fn.types, SAME)

\* the characters <, > and " of a text, in their order
CriticalOf(text) == SelectSeq(text, LAMBDA c : c = "<" \/ c = ">" \/ c = "\"")

\* C13: the tags contain PUNCTUATION iff dest is non-empty, differs from
\* source, and the characters <, > and " of source, in order and number,
\* differ from those of dest; PUNCTUATION never comes with MISSING or SAME.
C13_Punctuation ==
    fn.stage = "classified" =>
        /\ Has(fn.types, PUNCTUATION) <=>
               (/\ fn.dest # NULL /\ fn.dest # <<>>
                /\ fn.dest # fn.source
                /\ CriticalOf(fn.source) # CriticalOf(fn.dest))
        /\ Has(fn.types, PUNCTUATION) =>
               (~Has(fn.types, MISSING) /\ ~Has(fn.types, SAME))

\* a classified pair whose critical characters are the same ones in another
\* order, and tagged
C13_Witness ==
    /\ fn.stage = "classified"
    /\ Has(fn.types, PUNCTUATION)
    /\ \E c \in {"<", ">", "\""} : \E p \in DOMAIN fn.source : fn.source[p] = c
    /\ \A c \in {"<", ">", "\""} :
           Cardinality({p \in DOMAIN fn.source : fn.source[p] = c})
               = Cardinality({p \in DOMAIN fn.dest : fn.dest[p] = c})

\* the condition of the TECHNICAL tag on a source
TechnicalSource(source) ==
    /\ \A p \in DOMAIN source : source[p] # " "
    /\ \E p \in DOMAIN source : IsUpper(source[p])
    /\ \/ \E p \in DOMAIN source : source[p] \in Digits
       \/ \E p \in DOMAIN source : source[p] = "_"
       \/ Cardinality({p \in DOMAIN source : IsUpper(source[p])}) > 1

\* C14: whatever dest is, the tags contain TECHNICAL iff source has no
\* space, has an upper-case letter, and has a digit, an underscore or more
\* than one upper-case letter.
C14_Technical ==
    fn.stage = "classified" =>
        (Has(fn.types, TECHNICAL) <=> TechnicalSource(fn.source))

\* a classified pair tagged TECHNICAL, DLC and PUNCTUATION whose source is
\* tagged TECHNICAL with MISSING and with SAME under other dests
C14_Witness ==
    /\ fn.stage = "classified"
    /\ Has(fn.types, TECHNICAL) /\ Has(fn.types, DLC) /\ Has(fn.types, PUNCTUATION)
    /\ \E d \in AnomalyDests(fn.source) :
           Has(getAnomalyTypes(fn.source, d), TECHNICAL)
               /\ Has(getAnomalyTypes(fn.source, d), MISSING)
    /\ \E d \in AnomalyDests(fn.source) :
           Has(getAnomalyTypes(fn.source, d), TECHNICAL)
               /\ Has(getAnomalyTypes(fn.source, d), SAME)

\* the condition of the DLC tag on a source
DLCSource(source) ==
    \/ \E p \in DOMAIN source :
           /\ p + 3 <= Len(source)
           /\ toLowerCase(SubSeq(source, p, p + 2)) = <<"d","l","c">>
           /\ source[p + 3] \in Digits
    \/ \E rest \in {SubSeq(source, 4, Len(source))} : source = <<"D","L","C">> \o rest

\* C15: whatever dest is, the tags contain DLC iff source has "DLC" in any
\* letter case followed by a digit, or begins with "DLC" as written; every
\* dest next to the same source gives the same answer.
C15_DLC ==
    fn.stage = "classified" =>
        /\ Has(fn.types, DLC) <=> DLCSource(fn.source)
        /\ \A d \in AnomalyDests(fn.source) :
               Has(getAnomalyTypes(fn.source, d), DLC) <=> Has(fn.types, DLC)

\* a classified source tagged DLC for a lower-case "dlc" and a digit inside it
C15_Witness ==
    /\ fn.stage = "classified"
    /\ Has(fn.types, DLC)
    /\ Len(fn.source) >= 5
    /\ SubSeq(fn.source, 2, 5) = <<"d","l","c","1">>

----------------------------------------------------------------------------
(* mask applied to texts of several words, and to its own result (SpecWords) *)

aB == <<"a"," ","b">>

bAA == <<"b"," ","a"," ","a">>

\* glossary directories whose terms are words: terms that overlap in a text
\* without beginning one another, and terms that spell the parts of a
\* placeholder
WordDirs ==
    { <<[subdir |-> "skyrim_characters", items |-> <<aB, bAA>>]>>,
      <<[subdir |-> "skyrim_characters", items |-> <<aB, <<"a">> >>]>>,
      <<[subdir |-> "skyrim_characters", items |-> <<Name, Id1>>]>> }

WordChunks ==
    { aB, <<" ","a">>, <<" ">>, <<"a">>, <<"b">>, Name, Id1, <<"_">>, <<"[">>,
      Placeholder(Name, Id1) }

WordTexts == {Concat(q) : q \in SeqsUpTo(WordChunks, MaxChunks)}

WordsInit ==
    /\ glossary \in TablesOf(WordDirs)
    /\ fn \in [stage : {"input"}, text : WordTexts, masked : {NULL}, again : {NULL}]
    /\ dialogStrings = <<>>
    /\ pc = "fn"
    /\ mask = NoRun
    /\ tr = NoRun
    /\ hist = NoRun

\* mask of the masked text, with the matcher of the same glossary table
FnMaskAgain ==
    /\ pc = "fn" /\ fn.stage = "masked"
    /\ fn' = [fn EXCEPT !.stage = "remasked",
                        !.again = MaskText(fn.masked, SortedTerms(glossary))]
    /\ UNCHANGED <<glossary, dialogStrings, pc, mask, tr, hist>>

WordsNext == FnMask \/ FnMaskAgain

SpecWords == WordsInit /\ [][WordsNext]_vars

\* the whole-word occurrences of the glossary terms in text: spans <<first, last>>
Occurrences(rows, text) ==
    UNION { { <<p, TermMatchEnd(rows[i].term, text, p) - 1>> : i \in MatchingAt(rows, text, p) } :
            p \in DOMAIN text }

Overlap(x, y) == x[1] <= y[2] /\ y[1] <= x[2]

SpanLen(x) == x[2] - x[1] + 1

\* the spans that mask replaced in the text
ReplacedSpans ==
    {MaskSpans(fn.text, SortedTerms(glossary))[k] :
        k \in DOMAIN MaskSpans(fn.text, SortedTerms(glossary))}

\* what mask returns when it replaces the spans
MaskedBy(spans) ==
    ReplaceSpans(fn.text, spans,
                 [k \in DOMAIN spans |->
                     MaskCallback(SubSeq(fn.text, spans[k][1], spans[k][2]),
                                  TermLookup(SortedTerms(glossary)))],
                 1, 1)

\* C16 (as stated): of two whole-word term occurrences that overlap, at the
\* same start or at different starts, the one of the shorter term is not the
\* one that mask replaces.
C16_LongerWinsOverlap ==
    fn.stage = "masked" =>
        \A x, y \in Occurrences(glossary, fn.text) :
            (Overlap(x, y) /\ SpanLen(x) < SpanLen(y)) => x \notin ReplacedSpans

\* C16 (amended): mask replaces whole-word term occurrences only, and an
\* occurrence that it does not replace overlaps a replaced one that starts
\* before it, or that starts with it and is longer: the earlier start
\* decides, and the term length decides between occurrences of one start.
C16_EarlierThenLonger ==
    fn.stage = "masked" =>
        /\ ReplacedSpans \subseteq Occurrences(glossary, fn.text)
        /\ \A x \in Occurrences(glossary, fn.text) \ ReplacedSpans :
               \E y \in ReplacedSpans :
                   /\ Overlap(x, y)
                   /\ y[1] < x[1] \/ (y[1] = x[1] /\ SpanLen(y) > SpanLen(x))
        /\ fn.masked = MaskedBy(MaskSpans(fn.text, SortedTerms(glossary)))

\* a masked text in which the replaced occurrence overlaps a longer one that
\* starts after it
C16_Witness ==
    /\ fn.stage = "masked"
    /\ \E x \in ReplacedSpans : \E y \in Occurrences(glossary, fn.text) :
           Overlap(x, y) /\ x[1] < y[1] /\ SpanLen(x) < SpanLen(y)
    /\ fn.masked # fn.text

----------------------------------------------------------------------------
(* Global replacement (SpecMasking) *)

\* the term stands at p in text, in any letter case, with no letter, digit
\* or underscore right before it or right after it
StandsAlone(term, text, p) ==
    /\ p + Len(term) - 1 <= Len(text)
    /\ toLowerCase(SubSeq(text, p, p + Len(term) - 1)) = toLowerCase(term)
    /\ p > 1 => ~IsWordChar(text[p - 1])
    /\ p + Len(term) <= Len(text) => ~IsWordChar(text[p + Len(term)])

\* the spans of the glossary terms that stand alone in text
AloneSpans(rows, text) ==
    UNION { { <<p, p + Len(rows[i].term) - 1>> :
                i \in {j \in DOMAIN rows : StandsAlone(rows[j].term, text, p)} } :
            p \in DOMAIN text }

\* C17: every occurrence of a glossary term, in any letter case, that stands
\* alone and overlaps no other such occurrence is replaced by the placeholder
\* "[category_id]" of that term, whatever the first and last character of
\* the term are.
C17_EveryOccurrenceReplaced ==
    fn.stage = "masked" =>
        \A x \in AloneSpans(glossary, fn.text) :
            (\A y \in AloneSpans(glossary, fn.text) : y # x => ~Overlap(x, y))
            => \E k \in DOMAIN MaskSpans(fn.text, SortedTerms(glossary)) :
                   /\ MaskSpans(fn.text, SortedTerms(glossary))[k] = x
                   /\ \E i \in DOMAIN glossary :
                          /\ toLowerCase(glossary[i].term)
                                 = toLowerCase(SubSeq(fn.text, x[1], x[2]))
                          /\ MaskCallback(SubSeq(fn.text, x[1], x[2]),
                                          TermLookup(SortedTerms(glossary)))
                                 = Placeholder(glossary[i].category, glossary[i].id)

----------------------------------------------------------------------------
(* Mask of a masked text (SpecWords) *)

IsAlphabetic(s) == s # <<>> /\ \A p \in DOMAIN s : IsLower(s[p]) \/ IsUpper(s[p])

\* no term has a bracket or an underscore, and every category is alphabetic
PlainGlossary(rows) ==
    \A i \in DOMAIN rows :
        /\ \A p \in DOMAIN rows[i].term : rows[i].term[p] \notin {"[", "]", "_"}
        /\ IsAlphabetic(rows[i].category)

\* C19: with a glossary whose terms have no bracket and no underscore and
\* whose categories are alphabetic, mask(mask(text)) = mask(text) for every
\* text: the second mask finds no term in what the first one returned.
C19_MaskIdempotent ==
    (fn.stage = "remasked" /\ PlainGlossary(glossary))
        => /\ fn.again = fn.masked
           /\ MaskSpans(fn.masked, SortedTerms(glossary)) = <<>>

\* a text masked twice whose first mask put in a placeholder, with a plain
\* glossary that has the category name and an id among its terms
C19_Witness ==
    /\ fn.stage = "remasked"
    /\ PlainGlossary(glossary)
    /\ \E i \in DOMAIN glossary : glossary[i].term = glossary[i].category
    /\ \E i \in DOMAIN glossary : glossary[i].term \in IdPool
    /\ fn.masked # fn.text
    /\ \E p \in DOMAIN fn.text : fn.text[p] \in {"[", "_"}

----------------------------------------------------------------------------
(* The translation engine: translateText and its retries (SpecTranslate) *)

MAX_RETRIES == 3

Min(a, b) == IF a < b THEN a ELSE b

Max(a, b) == IF a < b THEN b ELSE a

\* String.prototype.indexOf(c): zero-based, -1 when c is not in s
indexOf(s, c) ==
    IF \E p \in DOMAIN s : s[p] = c
    THEN (CHOOSE p \in DOMAIN s : s[p] = c /\ \A q \in 1..(p - 1) : s[q] # c) - 1
    ELSE -1

\* String.prototype.lastIndexOf(c)
lastIndexOf(s, c) ==
    IF \E p \in DOMAIN s : s[p] = c
    THEN (CHOOSE p \in DOMAIN s : s[p] = c /\ \A q \in (p + 1)..Len(s) : s[q] # c) - 1
    ELSE -1

\* String.prototype.substring(start, end): zero-based, the arguments are
\* clamped to 0..length and swapped when start > end
substring(s, start, end) ==
    LET a == Max(0, Min(Len(s), start))
        b == Max(0, Min(Len(s), end))
    IN  SubSeq(s, Min(a, b) + 1, Max(a, b))

\* the closing quote of the JSON string that opens at p, before the last
\* character of s; 0 when there is none (the strings here have no escapes)
StringEnd(s, p) ==
    IF \E q \in (p + 1)..(Len(s) - 1) : s[q] = "\""
    THEN CHOOSE q \in (p + 1)..(Len(s) - 1) :
             s[q] = "\"" /\ \A r \in (p + 1)..(q - 1) : s[r] # "\""
    ELSE 0

\* the members "key":"value" of a JSON object from position p of s on
RECURSIVE ParseMembers(_, _, _)
ParseMembers(s, p, members) ==
    LET ke == IF p < Len(s) /\ s[p] = "\"" THEN StringEnd(s, p) ELSE 0
        vs == ke + 2
        ve == IF ke # 0 /\ vs < Len(s) /\ s[ke + 1] = ":" /\ s[vs] = "\""
              THEN StringEnd(s, vs) ELSE 0
    IN  IF ve = 0 THEN [ok |-> FALSE, members |-> <<>>]
        ELSE LET more == Append(members, [key |-> SubSeq(s, p + 1, ke - 1),
                                          value |-> SubSeq(s, vs + 1, ve - 1)])
             IN  IF ve + 1 = Len(s) THEN [ok |-> TRUE, members |-> more]
                 ELSE IF s[ve + 1] = "," THEN ParseMembers(s, ve + 2, more)
                 ELSE [ok |-> FALSE, members |-> <<>>]

\* JSON.parse on the texts the model's responses are made of: objects with
\* string members and no white space are parsed, every other text throws
\* (ok is FALSE)
JSONparse(s) ==
    IF Len(s) < 2 \/ s[1] # "{" \/ s[Len(s)] # "}" THEN [ok |-> FALSE, members |-> <<>>]
    ELSE IF Len(s) = 2 THEN [ok |-> TRUE, members |-> <<>>]
    ELSE ParseMembers(s, 2, <<>>)

\* parsed.indonesian: the last member of that name; NULL stands for undefined
Indonesian(parsed) ==
    LET I == {i \in DOMAIN parsed.members :
                 parsed.members[i].key = <<"i","n","d","o","n","e","s","i","a","n">>}
    IN  IF I = {} THEN NULL
        ELSE parsed.members[CHOOSE i \in I : \A j \in I : j <= i].value

\* the pieces of the model's responses
OpenTranslated ==
    <<"{","\"","i","n","d","o","n","e","s","i","a","n","\"",":","\"","X","b","\"">>

OpenEmpty ==
    <<"{","\"","i","n","d","o","n","e","s","i","a","n","\"",":","\"","\"">>

English ==
    <<",","\"","e","n","g","l","i","s","h","\"",":","\"","a","b","\"">>

ResponseChunks == { OpenTranslated, OpenEmpty, English, <<"}">>, <<"x">> }

\* what result.getText() may resolve to
Responses == {Concat(q) : q \in SeqsUpTo(ResponseChunks, MaxChunks)}

\* what one attempt meets: an error thrown by callModel or getText, or a text
Outcomes == {[kind |-> "throw", text |-> <<>>]} \cup {[kind |-> "text", text |-> r] : r \in Responses}

TranslateTexts == { ab, AbB, Placeholder(Name, Id1) \o <<" ","b">> }

TranslateInit ==
    /\ fn \in [stage : {"loop"}, text : TranslateTexts, attempt : {1}, calls : {0},
               outcome : {[kind |-> "none", text |-> <<>>]}, result : {NULL}]
    /\ glossary = <<>>
    /\ dialogStrings = <<>>
    /\ pc = "fn"
    /\ mask = NoRun
    /\ tr = NoRun
    /\ hist = NoRun

\* `return value`
Return(f, value) == [f EXCEPT !.stage = "returned", !.result = value]

\* if (attempt < MAX_RETRIES) { wait; continue; } return text;
RetryOrReturn(f) ==
    IF f.attempt < MAX_RETRIES THEN [f EXCEPT !.attempt = f.attempt + 1]
    ELSE Return(f, f.text)

\* the first '{' to the last '}' of the response, parsed
ExtractAndParse(f, translatedText) ==
    LET firstBrace == indexOf(translatedText, "{")
        lastBrace == lastIndexOf(translatedText, "}")
    IN  IF firstBrace # -1 /\ lastBrace # -1
        THEN LET parsed == JSONparse(substring(translatedText, firstBrace, lastBrace + 1))
             IN  IF parsed.ok THEN Return(f, OrElse(Indonesian(parsed), f.text))
                 ELSE RetryOrReturn(f)
        ELSE Return(f, f.text)

\* one pass of the loop of translateText: the call of the model and what
\* follows from its outcome
Attempt ==
    /\ pc = "fn" /\ fn.stage = "loop" /\ fn.attempt <= MAX_RETRIES
    /\ \E outcome \in Outcomes :
           LET f == [fn EXCEPT !.calls = fn.calls + 1, !.outcome = outcome]
           IN  fn' = IF outcome.kind = "throw" THEN RetryOrReturn(f)
                     ELSE IF ~Truthy(outcome.text) THEN RetryOrReturn(f)
                     ELSE ExtractAndParse(f, outcome.text)
    /\ UNCHANGED <<glossary, dialogStrings, pc, mask, tr, hist>>

TranslateNext == Attempt

SpecTranslate == TranslateInit /\ [][TranslateNext]_vars

\* the response holds a JSON object between its first '{' and its last '}'
UsableJSON(text) ==
    \E i, j \in DOMAIN text :
        /\ i < j /\ text[i] = "{" /\ text[j] = "}"
        /\ \A k \in 1..(i - 1) : text[k] # "{"
        /\ \A k \in (j + 1)..Len(text) : text[k] # "}"
        /\ JSONparse(SubSeq(text, i, j)).ok

\* the attempt failed: an error was thrown, the response was empty, or it
\* was not usable JSON
FailedAttempt(outcome) ==
    \/ outcome.kind = "throw"
    \/ outcome.kind = "text" /\ (outcome.text = <<>> \/ ~UsableJSON(outcome.text))

\* C18: translateText calls the model at most 3 times; it returns the
\* translation of a parsed response or its input; an attempt that failed is
\* followed by another one while attempts remain, so that translateText
\* returns after a failed attempt only when all 3 attempts are used up, and
\* then it returns its input.
C18_RetryPolicy ==
    /\ fn.calls <= MAX_RETRIES
    /\ fn.stage = "returned" =>
           /\ \/ fn.result = fn.text
              \/ /\ fn.outcome.kind = "text" /\ UsableJSON(fn.outcome.text)
                 /\ \E i, j \in DOMAIN fn.outcome.text :
                        fn.result = Indonesian(JSONparse(SubSeq(fn.outcome.text, i, j)))
           /\ FailedAttempt(fn.outcome) =>
                  (fn.calls = MAX_RETRIES /\ fn.result = fn.text)

----------------------------------------------------------------------------
(* Stored masked text and the glossary table (Spec) *)

\* the tokens of the placeholder grammar in text
TokensOf(text) ==
    {SubSeq(text, PlaceholderSpans(text, 1)[k][1], PlaceholderSpans(text, 1)[k][2]) :
        k \in DOMAIN PlaceholderSpans(text, 1)}

\* C20: when a mask run has ended, by completion, by the early return on an
\* empty term list or by rollback, every placeholder of every stored
\* maskedSource is the key "[category_id]" of a row of the glossary table.
C20_StoredPlaceholdersResolvable ==
    MaskRunEnded =>
        \A id \in DOMAIN dialogStrings :
            dialogStrings[id].maskedSource # NULL =>
                TokensOf(dialogStrings[id].maskedSource)
                    \subseteq DOMAIN loadGlossaryCache(glossary)

----------------------------------------------------------------------------
(* The dashboard server next to the scripts (SpecDashboard) *)

\* a translation typed into the review page
ManualDest == <<"M">>

\* the strings imported for the runs that the dashboard is used next to
DashboardSources == {Ab, AbB}

\* fn.saved[id]: the run during which ManualDest was last saved for the
\* record through the dashboard, 0 when it was saved between runs or never
DashboardInit ==
    /\ glossary = <<>>
    /\ dialogStrings \in [1..NumRecords ->
                             [source : DashboardSources, dest : {<<>>}, maskedSource : {NULL}]]
    /\ pc = "idle"
    /\ mask = NoRun
    /\ tr = NoRun
    /\ hist = [runs |-> 0, last |-> "none", before |-> <<>>, calls |-> <<>>, results |-> <<>>]
    /\ fn = [saved |-> [id \in 1..NumRecords |-> 0]]

\* app.post('/api/update'): 400 when the body has no id (0) or no dest
\* (NULL), else UPDATE dialog_strings SET dest = ? WHERE id = ?; the server
\* is a process of its own and answers at any point of a script's run
ApiUpdate ==
    \E id \in 0..NumRecords : \E dest \in {ManualDest, NULL} :
        IF id = 0 \/ dest = NULL
        THEN UNCHANGED vars
        ELSE /\ dialogStrings' = [dialogStrings EXCEPT ![id].dest = dest]
             /\ fn' = [fn EXCEPT !.saved[id] = IF pc = "idle" THEN 0 ELSE hist.runs]
             /\ UNCHANGED <<glossary, pc, mask, tr, hist>>

DashboardNext == Next \/ ApiUpdate

SpecDashboard == DashboardInit /\ [][DashboardNext]_vars

\* a mask run or a translation run has ended and no script has been started since
RunEnded ==
    /\ pc = "idle"
    /\ hist.last \in {"mask_noterms", "mask_failed", "mask_commit", "mask_rollback", "tr_done"}

\* C21: a dest saved through POST /api/update while a mask run or a
\* translation run was in progress is the record's dest when that run has
\* ended, wherever in the run the update came.
C21_ManualDestKept ==
    RunEnded =>
        \A id \in DOMAIN dialogStrings :
            fn.saved[id] = hist.runs => dialogStrings[id].dest = ManualDest

----------------------------------------------------------------------------
(* The dashboard's pages and the anomaly scan (SpecReview) *)

\* const limit = 50
limit == 50

\* String.prototype.includes
includes(s, sub) ==
    \E p \in 0..(Len(s) - Len(sub)) : SubSeq(s, p + 1, p + Len(sub)) = sub

\* the type filter looks at dest for MISSING only when it is the empty string
ReviewFilterEmptyOnly(str, type, search) ==
    IF ~Truthy(str.source) THEN FALSE
    ELSE IF type = MISSING THEN str.dest = <<>>
    ELSE TRUE

\* the callback of allStrings.filter in app.get('/review')
ReviewFilter(str, type, search) ==
    IF ~Truthy(str.source) THEN FALSE
    ELSE IF /\ Truthy(search)
            /\ ~includes(toLowerCase(str.source), search)
            /\ ~includes(toLowerCase(OrElse(str.dest, <<>>)), search)
    THEN FALSE
    ELSE IF type = "all" THEN TRUE
    ELSE IF type = MISSING THEN ~Truthy(str.dest)
    ELSE IF type = SAME THEN str.source = str.dest
    ELSE IF type = DLC THEN isDLC(str.source)
    ELSE IF type = TECHNICAL THEN isTechnical(str.source)
    ELSE IF type = PUNCTUATION THEN isPunctuationMismatch(str.source, OrElse(str.dest, <<>>))
    ELSE TRUE

\* app.get('/review'): the filtered strings and the page that is rendered
Review(allStrings, page, type, search) ==
    LET filtered == SelectSeq(allStrings, LAMBDA str : ReviewFilter(str, type, search))
        total == Len(filtered)
    IN  [done |-> TRUE, type |-> type, search |-> search, page |-> page,
         filtered |-> filtered,
         totalPages |-> (total + limit - 1) \div limit,
         strings |-> SubSeq(filtered, (page - 1) * limit + 1, Min(page * limit, total))]

\* the stats loop of app.get('/') over the strings i..
RECURSIVE IndexStats(_, _, _)
IndexStats(allStrings, i, stats) ==
    IF i > Len(allStrings) THEN stats
    ELSE LET str == allStrings[i]
             s1 == IF ~Truthy(str.dest) THEN [stats EXCEPT !.missing = @ + 1]
                   ELSE IF str.source = str.dest THEN [stats EXCEPT !.same = @ + 1]
                   ELSE IF isPunctuationMismatch(str.source, str.dest)
                   THEN [stats EXCEPT !.punct = @ + 1]
                   ELSE stats
             s2 == IF isDLC(str.source) THEN [s1 EXCEPT !.dlc = @ + 1] ELSE s1
             s3 == IF isTechnical(str.source) THEN [s2 EXCEPT !.tech = @ + 1] ELSE s2
         IN  IndexStats(allStrings, i + 1, IF ~Truthy(str.source) THEN stats ELSE s3)

\* types.forEach(t => stats[t]++) over the tags k..
RECURSIVE CountTypes(_, _, _)
CountTypes(types, k, stats) ==
    IF k > Len(types) THEN stats
    ELSE CountTypes(types, k + 1, [stats EXCEPT ![types[k]] = @ + 1])

\* the loop of scan_anomalies.ts over the strings i..
RECURSIVE ScanStats(_, _, _)
ScanStats(allStrings, i, stats) ==
    IF i > Len(allStrings) THEN stats
    ELSE LET record == allStrings[i]
             types == getAnomalyTypes(record.source, record.dest)
         IN  ScanStats(allStrings, i + 1,
                       IF ~Truthy(record.source) \/ Len(types) = 0 THEN stats
                       ELSE CountTypes(types, 1, [stats EXCEPT !.anomalies = @ + 1]))

ReviewSources == { <<>>, <<"D","L","C","1">>, <<"<","x">> }

\* the dest column next to a source
ReviewDests(source) == { NULL, <<>>, source, <<"x">>, source \o <<"x">> }

ReviewRecords ==
    UNION { { [source |-> source, dest |-> dest, maskedSource |-> NULL] :
                dest \in ReviewDests(source) } : source \in ReviewSources }

\* the query of a /review request: page (0: none given), type, search
ReviewTypes == {"all", MISSING, SAME, DLC, TECHNICAL, PUNCTUATION, "other"}

\* no response yet
NoStats == [done |-> FALSE]

NoReview == [done |-> FALSE, type |-> "none"]

ReviewInit ==
    /\ dialogStrings \in [1..NumRecords -> ReviewRecords]
    /\ fn = [index |-> NoStats, review |-> NoReview, scan |-> NoStats]
    /\ glossary = <<>>
    /\ pc = "fn"
    /\ mask = NoRun
    /\ tr = NoRun
    /\ hist = NoRun

\* app.get('/')
GetIndex ==
    /\ pc = "fn" /\ ~fn.index.done
    /\ LET allStrings == SelectAll(dialogStrings, 1)
       IN  fn' = [fn EXCEPT !.index =
                      IndexStats(allStrings, 1,
                                 [done |-> TRUE, total |-> Len(allStrings), missing |-> 0, same |-> 0,
                                  dlc |-> 0, tech |-> 0, punct |-> 0])]
    /\ UNCHANGED <<glossary, dialogStrings, pc, mask, tr, hist>>

\* app.get('/review')
GetReview ==
    /\ pc = "fn" /\ ~fn.review.done
    /\ \E page \in 0..2 : \E type \in ReviewTypes : \E search \in {<<>>, <<"X">>} :
           fn' = [fn EXCEPT !.review =
                      Review(SelectAll(dialogStrings, 1), IF page = 0 THEN 1 ELSE page,
                             type, toLowerCase(search))]
    /\ UNCHANGED <<glossary, dialogStrings, pc, mask, tr, hist>>

\* scan_anomalies.ts main()
ScanAnomalies ==
    /\ pc = "fn" /\ ~fn.scan.done
    /\ LET allStrings == SelectAll(dialogStrings, 1)
       IN  fn' = [fn EXCEPT !.scan =
                      ScanStats(allStrings, 1,
                                [done |-> TRUE, missing |-> 0, same |-> 0, dlc |-> 0, tech |-> 0,
                                 punct |-> 0, total |-> Len(allStrings), anomalies |-> 0])]
    /\ UNCHANGED <<glossary, dialogStrings, pc, mask, tr, hist>>

ReviewNext == GetIndex \/ GetReview \/ ScanAnomalies

SpecReview == ReviewInit /\ [][ReviewNext]_vars

AnomalyTags == {MISSING, SAME, DLC, TECHNICAL, PUNCTUATION}

\* the records with a source whose tags contain tag
Tagged(tag) ==
    {id \in DOMAIN dialogStrings :
        /\ dialogStrings[id].source # NULL /\ dialogStrings[id].source # <<>>
        /\ Has(getAnomalyTypes(dialogStrings[id].source, dialogStrings[id].dest), tag)}

\* the records that a /review response selected
SelectedIds(review) == {review.filtered[k].id : k \in DOMAIN review.filtered}

\* C22: the /review filter of a tag selects, among the records that the
\* search lets through (all of them when there is no search text), those
\* records with a source whose tags from getAnomalyTypes contain the tag;
\* the counters of / are, tag by tag, the number of such records, and so
\* are the counters of the anomaly scan.
C22_DashboardAgrees ==
    /\ (fn.review.done /\ fn.review.type \in AnomalyTags) =>
           /\ SelectedIds(fn.review) \subseteq Tagged(fn.review.type)
           /\ fn.review.search = <<>> => SelectedIds(fn.review) = Tagged(fn.review.type)
           /\ \A id \in Tagged(fn.review.type) \ SelectedIds(fn.review) :
                  /\ ~includes(toLowerCase(dialogStrings[id].source), fn.review.search)
                  /\ \/ dialogStrings[id].dest = NULL
                     \/ ~includes(toLowerCase(dialogStrings[id].dest), fn.review.search)
    /\ fn.index.done =>
           \A tag \in AnomalyTags : fn.index[tag] = Cardinality(Tagged(tag))
    /\ fn.scan.done =>
           \A tag \in AnomalyTags : fn.scan[tag] = Cardinality(Tagged(tag))

\* the three requests served on a table with a punctuation mismatch: the
\* PUNCTUATION filter, without search text, selected one record and left
\* one with a source out, and both counters count it
C22_Witness ==
    /\ fn.review.done /\ fn.index.done /\ fn.scan.done
    /\ fn.review.type = PUNCTUATION /\ fn.review.search = <<>>
    /\ SelectedIds(fn.review) # {}
    /\ \E id \in DOMAIN dialogStrings \ SelectedIds(fn.review) :
           dialogStrings[id].source # <<>>
    /\ fn.index.punct = 1 /\ fn.scan.punct = 1

====
